---- MODULE Spec2Model ----
(***************************************************************************)
(* Model of damply's directory-hierarchy aggregation (src/damply/plot.py): *)
(* one run of main() from the loaded table to the node labels and links    *)
(* handed to the Sankey renderer.                                          *)
(*                                                                         *)
(* Strings are sequences of character codes (so that os.path.commonprefix  *)
(* and string comparison work character by character).  A pathlib Path is  *)
(* its `parts` tuple: <<"/", "data", "ab">> for /data/ab, <<"/">> for the  *)
(* filesystem root and <<>> for Path('') == Path('.').                     *)
(***************************************************************************)
EXTENDS Integers, Sequences, FiniteSets, TLC

VARIABLES df, threshold_gb, directories, common_root, nodes, links,
          label_with_sizes, pc,
          \* generate_node_list and permutate_path taken step by step
          cur_path, ancestors, expanding, collected,
          \* the README of a directory and the DMPMetadata being handled
          readme, fields, parsed, mpc

plotvars == <<df, threshold_gb, directories, common_root, nodes, links,
              label_with_sizes, pc>>

expandvars == <<cur_path, ancestors, expanding, collected>>

metavars == <<readme, fields, parsed, mpc>>

vars == <<plotvars, expandvars, metavars>>

(* ------------------------------ bounds -------------------------------- *)
MaxDepth == 4
MaxRows == 2
MaxSize == 2
\* the second specification: more rows, of shallower paths
WideDepth == 2
WideRows == 3
\* the third specification: the rows of tables about the /data tree
DataRows == 3

(* --------------------------- strings, paths --------------------------- *)
Slash == <<47>>
Dot == <<46>>
NameA == <<97>>
NameADash == <<97, 45>>
NameB == <<98>>
Names == {NameA, NameADash, NameB}

Range(s) == {s[i] : i \in 1..Len(s)}

\* Python's str < str: lexicographic by character code.
StrLess(s, t) ==
  \E i \in 1..(Len(s) + 1) :
    /\ i <= Len(t)
    /\ \A j \in 1..(i - 1) : s[j] = t[j]
    /\ (i = Len(s) + 1 \/ s[i] < t[i])

RECURSIVE Split(_, _)
Split(s, cur) ==
  IF s = <<>> THEN <<cur>>
  ELSE IF <<Head(s)>> = Slash THEN <<cur>> \o Split(Tail(s), <<>>)
  ELSE Split(Tail(s), Append(cur, Head(s)))

IsSegment(x) == x # <<>> /\ x # Dot

\* Path(s): the parts of the path a string denotes; empty and "." segments
\* (doubled or trailing separators) are dropped.
PathOf(s) ==
  LET segs == SelectSeq(Split(s, <<>>), IsSegment)
  IN IF s # <<>> /\ <<Head(s)>> = Slash THEN <<Slash>> \o segs ELSE segs

RECURSIVE Join(_)
Join(segs) ==
  IF segs = <<>> THEN <<>>
  ELSE IF Len(segs) = 1 THEN segs[1]
  ELSE segs[1] \o Slash \o Join(Tail(segs))

IsAbsolute(p) == p # <<>> /\ p[1] = Slash

\* str(path)
Str(p) ==
  IF p = <<>> THEN Dot
  ELSE IF IsAbsolute(p) THEN Slash \o Join(Tail(p))
  ELSE Join(p)

\* path.parent: the anchor and the empty path are their own parent.
parent(p) ==
  IF p = <<>> \/ (Len(p) = 1 /\ IsAbsolute(p)) THEN p
  ELSE SubSeq(p, 1, Len(p) - 1)

\* path.name: the last segment, empty for the anchor.
name(p) ==
  IF p = <<>> \/ (Len(p) = 1 /\ IsAbsolute(p)) THEN <<>>
  ELSE p[Len(p)]

\* Directory(directory, size_GB), with __post_init__ setting .parent
Directory(d, size) == [directory |-> d, size_GB |-> size, parent |-> parent(d)]

(* --------------------------- get_common_root -------------------------- *)
\* os.path.commonprefix: character-wise prefix of the smallest and the
\* largest string of the list.
commonprefix(m) ==
  IF m = <<>> THEN <<>>
  ELSE LET S == Range(m)
           s1 == CHOOSE s \in S : \A t \in S : ~StrLess(t, s)
           s2 == CHOOSE s \in S : \A t \in S : ~StrLess(s, t)
           k == CHOOSE i \in 0..Len(s1) :
                  /\ \A j \in 1..i : s1[j] = s2[j]
                  /\ (i < Len(s1) => s1[i + 1] # s2[i + 1])
       IN SubSeq(s1, 1, k)

get_common_root(dirs) ==
  PathOf(commonprefix([i \in 1..Len(dirs) |-> Str(dirs[i].directory)]))

(* ------------------- permutate_path, generate_node_list --------------- *)
\* The loop `while path != Path("/")` ends only for absolute paths: the
\* parent of Path('.') is Path('.').
Terminates(path) == IsAbsolute(path)

RECURSIVE permutate_path(_)
permutate_path(path) ==
  IF path = <<Slash>> THEN <<>>
  ELSE <<path>> \o permutate_path(parent(path))

\* Path.__lt__ compares the parts, part by part, each part as a string.
PathLess(p, q) ==
  \E i \in 1..(Len(p) + 1) :
    /\ i <= Len(q)
    /\ \A j \in 1..(i - 1) : p[j] = q[j]
    /\ (i = Len(p) + 1 \/ StrLess(p[i], q[i]))

\* the order of line 92 had it compared the paths as strings
KeyLess_ByString(x, y) ==
  Len(x) < Len(y) \/ (Len(x) = Len(y) /\ StrLess(Str(x), Str(y)))

\* key=lambda x: (len(x.parts), x)
KeyLess(x, y) == Len(x) < Len(y) \/ (Len(x) = Len(y) /\ PathLess(x, y))

RECURSIVE sorted(_)
sorted(S) ==
  IF S = {} THEN <<>>
  ELSE LET m == CHOOSE x \in S : \A y \in S \ {x} : KeyLess(x, y)
       IN <<m>> \o sorted(S \ {m})

NodeSet(dirs, root) ==
  Range(permutate_path(root)) \cup
  UNION {Range(permutate_path(dirs[i].directory)) : i \in 1..Len(dirs)}

\* the nodes in the order the loop of lines 87-90 meets them, had line 92
\* not sorted them
RECURSIVE MetInOrder(_, _, _)
MetInOrder(dirs, root, n) ==
  LET prev == IF n = 0 THEN <<>> ELSE MetInOrder(dirs, root, n - 1)
      new == permutate_path(IF n = 0 THEN root ELSE dirs[n].directory)
      IsNew(x) == x \notin Range(prev)
  IN prev \o SelectSeq(new, IsNew)

generate_node_list_unsorted(dirs, root) == MetInOrder(dirs, root, Len(dirs))

generate_node_list(dirs, root) == sorted(NodeSet(dirs, root))

\* list.index: the first position, 0 standing for ValueError
index(list, x) ==
  IF \E i \in 1..Len(list) : list[i] = x
  THEN CHOOSE i \in 1..Len(list) : list[i] = x /\ \A j \in 1..(i - 1) : list[j] # x
  ELSE 0

(* ------------------------------ main ---------------------------------- *)
\* dirlist.dir_size_dict().get(node, 0): a later record of a path replaces
\* an earlier one.
dir_size(dirs, node) ==
  LET I == {i \in 1..Len(dirs) : dirs[i].directory = node}
  IN IF I = {} THEN 0
     ELSE dirs[CHOOSE i \in I : \A j \in I : j <= i].size_GB

RECURSIVE SumSizes(_)
SumSizes(ds) == IF ds = <<>> THEN 0 ELSE ds[1].size_GB + SumSizes(Tail(ds))

\* sum of size_GB over the records whose parent is node
ChildrenSize(dirs, node) ==
  LET IsChild(child) == child.parent = node
  IN SumSizes(SelectSeq(dirs, IsChild))

\* the loop of lines 130-133 over the first n records; ok is FALSE when an
\* index() raised ValueError
RECURSIVE BuildLinks(_, _, _)
BuildLinks(dirs, nds, n) ==
  IF n = 0 THEN [ok |-> TRUE, links |-> <<>>]
  ELSE LET prev == BuildLinks(dirs, nds, n - 1)
           dir == dirs[n]
           target == index(nds, dir.directory)
           source == index(nds, dir.parent)
       IN IF ~prev.ok \/ target = 0 \/ source = 0
          THEN [ok |-> FALSE, links |-> prev.links]
          ELSE [ok |-> TRUE,
                links |-> Append(prev.links,
                  [source |-> source, target |-> target, value |-> dir.size_GB])]

\* the loop of lines 136-147 over the first n nodes
RECURSIVE LabelLoop(_, _, _)
LabelLoop(dirs, nds, n) ==
  IF n = 0 THEN [dirs |-> dirs, labels |-> <<>>]
  ELSE LET prev == LabelLoop(dirs, nds, n - 1)
           node == nds[n]
           size == dir_size(prev.dirs, node)
           sum == ChildrenSize(prev.dirs, node)
       IN IF size = 0
          THEN [dirs |-> Append(prev.dirs, Directory(node, sum)),
                labels |-> Append(prev.labels, [label |-> name(node), size |-> sum])]
          ELSE [dirs |-> prev.dirs,
                labels |-> Append(prev.labels, [label |-> name(node), size |-> size])]

\* lines 149-151
nodes_whose_parent_is_common_root(nds, root) ==
  LET UnderRoot(node) == parent(node) = root
  IN SelectSeq(nds, UnderRoot)

\* the root's size had it been taken from the root's own record
common_root_size_own(dirs, root) == dir_size(dirs, root)

\* lines 154-160
common_root_size(dirs, root) == ChildrenSize(dirs, root)

\* lines 161-165
RootLinks(dirs, nds, root) ==
  LET under == nodes_whose_parent_is_common_root(nds, root)
  IN [i \in 1..Len(under) |->
        [source |-> index(nds, root), target |-> index(nds, under[i]),
         value |-> dir_size(dirs, under[i])]]

\* lines 168-171: the root's label is replaced by its path and the sum of
\* the records directly under it
RootLabelled(labels, dirs, nds, root) ==
  [labels EXCEPT ![index(nds, root)] =
     [label |-> Str(root), size |-> common_root_size(dirs, root)]]

(* ----------------------------- the run -------------------------------- *)
RECURSIVE PathsOfDepth(_)
PathsOfDepth(d) ==
  IF d = 0 THEN {<<Slash>>}
  ELSE {Append(p, n) : p \in PathsOfDepth(d - 1), n \in Names}

PathsUpTo(depth) == UNION {PathsOfDepth(d) : d \in 0..depth}

AbsPaths == PathsUpTo(IF MaxDepth > WideDepth THEN MaxDepth ELSE WideDepth)

\* the tables of at most `rows` rows naming directories of at most `depth`
\* segments
Tables(depth, rows) ==
  LET Rows == [abspath : {Str(p) : p \in PathsUpTo(depth)}, size_GB : 0..MaxSize]
  IN UNION {[1..n -> Rows] : n \in 0..rows}

\* no stepwise expansion under way
ExpandIdle ==
  /\ cur_path = <<>>
  /\ ancestors = <<>>
  /\ expanding = 0
  /\ collected = {}

\* no README command under way
MetaIdle ==
  /\ readme = <<>>
  /\ fields = <<>>
  /\ parsed = <<>>
  /\ mpc = "idle"

Init ==
  /\ df \in Tables(MaxDepth, MaxRows)
  /\ threshold_gb \in {-1, 0}
  /\ directories = <<>>
  /\ common_root = <<>>
  /\ nodes = <<>>
  /\ links = <<>>
  /\ label_with_sizes = <<>>
  /\ pc = "start"
  /\ ExpandIdle
  /\ MetaIdle

\* lines 119-126: the rows above the threshold, as Directory records
LoadedDirs(table, threshold) ==
  LET Kept(row) == row.size_GB > threshold
      kept == SelectSeq(table, Kept)
  IN [i \in 1..Len(kept) |->
        Directory(PathOf(kept[i].abspath), kept[i].size_GB)]

\* lines 119-126 and DirectoryList.__post_init__
LoadDirectories ==
  /\ pc = "start"
  /\ directories' = LoadedDirs(df, threshold_gb)
  /\ common_root' = get_common_root(directories')
  /\ pc' = "generate"
  /\ UNCHANGED <<df, threshold_gb, nodes, links, label_with_sizes>>
  /\ UNCHANGED <<expandvars, metavars>>

\* line 127
GenerateNodeList ==
  /\ pc = "generate"
  /\ IF Terminates(common_root)
     THEN /\ nodes' = generate_node_list(directories, common_root)
          /\ pc' = "links"
     ELSE /\ nodes' = nodes
          /\ pc' = "hang"
  /\ UNCHANGED <<df, threshold_gb, directories, common_root, links, label_with_sizes>>
  /\ UNCHANGED <<expandvars, metavars>>

\* lines 129-133
MakeLinks ==
  /\ pc = "links"
  /\ LET r == BuildLinks(directories, nodes, Len(directories))
     IN /\ links' = r.links
        /\ pc' = IF r.ok THEN "labels" ELSE "error"
  /\ UNCHANGED <<df, threshold_gb, directories, common_root, nodes, label_with_sizes>>
  /\ UNCHANGED <<expandvars, metavars>>

\* lines 135-147
MakeLabels ==
  /\ pc = "labels"
  /\ LET r == LabelLoop(directories, nodes, Len(nodes))
     IN /\ directories' = r.dirs
        /\ label_with_sizes' = r.labels
  /\ pc' = "rootlinks"
  /\ UNCHANGED <<df, threshold_gb, common_root, nodes, links>>
  /\ UNCHANGED <<expandvars, metavars>>

\* lines 149-165
MakeRootLinks ==
  /\ pc = "rootlinks"
  /\ LET under == nodes_whose_parent_is_common_root(nodes, common_root)
     IN IF under # <<>> /\ index(nodes, common_root) = 0
        THEN /\ links' = links
             /\ pc' = "error"
        ELSE /\ links' = links \o RootLinks(directories, nodes, common_root)
             /\ pc' = "rootlabel"
  /\ UNCHANGED <<df, threshold_gb, directories, common_root, nodes, label_with_sizes>>
  /\ UNCHANGED <<expandvars, metavars>>

\* lines 167-171
LabelRoot ==
  /\ pc = "rootlabel"
  /\ IF index(nodes, common_root) = 0
     THEN /\ label_with_sizes' = label_with_sizes
          /\ pc' = "error"
     ELSE /\ label_with_sizes' =
               RootLabelled(label_with_sizes, directories, nodes, common_root)
          /\ pc' = "done"
  /\ UNCHANGED <<df, threshold_gb, directories, common_root, nodes, links>>
  /\ UNCHANGED <<expandvars, metavars>>

Next ==
  \/ LoadDirectories
  \/ GenerateNodeList
  \/ MakeLinks
  \/ MakeLabels
  \/ MakeRootLinks
  \/ LabelRoot

Spec == Init /\ [][Next]_vars

InitWide ==
  /\ df \in Tables(WideDepth, WideRows)
  /\ threshold_gb \in {-1, 0}
  /\ directories = <<>>
  /\ common_root = <<>>
  /\ nodes = <<>>
  /\ links = <<>>
  /\ label_with_sizes = <<>>
  /\ pc = "start"
  /\ ExpandIdle
  /\ MetaIdle

SpecWide == InitWide /\ [][Next]_vars

\* the directories of the /data tree of the report
NameData == <<100, 97, 116, 97>>
NameProj == <<112, 114, 111, 106>>
NameOther == <<111, 116, 104, 101, 114>>
DataDir == <<Slash, NameData>>
ProjDir == <<Slash, NameData, NameProj>>
ProjADir == <<Slash, NameData, NameProj, NameA>>
ProjBDir == <<Slash, NameData, NameProj, NameB>>
OtherDir == <<Slash, NameData, NameOther>>

DataTables ==
  LET Rows == [abspath : {Str(p) : p \in {ProjDir, ProjADir, ProjBDir, OtherDir}},
               size_GB : {-5, 5, 10, 20}]
  IN UNION {[1..n -> Rows] : n \in 0..DataRows}

InitData ==
  /\ df \in DataTables
  /\ threshold_gb \in {-10, 0}
  /\ directories = <<>>
  /\ common_root = <<>>
  /\ nodes = <<>>
  /\ links = <<>>
  /\ label_with_sizes = <<>>
  /\ pc = "start"
  /\ ExpandIdle
  /\ MetaIdle

SpecData == InitData /\ [][Next]_vars

(* ------------- generate_node_list, one loop iteration a step --------- *)
\* the exit test of line 79 had it compared with the empty path
LoopEnds_AtEmptyPath(p) == p = <<>>

\* line 79: the loop of permutate_path ends at Path("/")
LoopEnds(p) == p = <<Slash>>

\* the path the k-th call of permutate_path is given: the common root
\* (line 87), then each record's directory (line 90)
Argument(k) == IF k = 0 THEN common_root ELSE directories[k].directory

\* lines 86-87: generate_node_list calls permutate_path(common_root)
BeginExpansion ==
  /\ pc = "generate"
  /\ cur_path' = common_root
  /\ ancestors' = <<>>
  /\ expanding' = 0
  /\ collected' = {}
  /\ pc' = "permutate"
  /\ UNCHANGED <<df, threshold_gb, directories, common_root, nodes, links,
                 label_with_sizes, metavars>>

\* lines 79-81: one iteration of the loop.  An iteration that leaves the path
\* as it was, short of Path("/"), is followed by the same iteration for ever.
PermutateStep ==
  /\ pc = "permutate"
  /\ ~LoopEnds(cur_path)
  /\ ancestors' = Append(ancestors, cur_path)
  /\ cur_path' = parent(cur_path)
  /\ pc' = IF parent(cur_path) = cur_path THEN "hang" ELSE "permutate"
  /\ UNCHANGED <<df, threshold_gb, directories, common_root, nodes, links,
                 label_with_sizes, expanding, collected, metavars>>

\* line 82, the set() of line 87 or update() of line 90, and the next call
PermutateReturn ==
  /\ pc = "permutate"
  /\ LoopEnds(cur_path)
  /\ collected' = collected \cup Range(ancestors)
  /\ IF expanding < Len(directories)
     THEN /\ expanding' = expanding + 1
          /\ cur_path' = directories[expanding + 1].directory
          /\ ancestors' = <<>>
          /\ pc' = "permutate"
     ELSE /\ UNCHANGED <<expanding, cur_path, ancestors>>
          /\ pc' = "sort"
  /\ UNCHANGED <<df, threshold_gb, directories, common_root, nodes, links,
                 label_with_sizes, metavars>>

\* lines 92-93
SortNodes ==
  /\ pc = "sort"
  /\ nodes' = sorted(collected)
  /\ pc' = "links"
  /\ UNCHANGED <<df, threshold_gb, directories, common_root, links,
                 label_with_sizes, expandvars, metavars>>

\* the deepest path and the most records of a table whose expansion is
\* followed one loop iteration at a time
ExpandDepth == 3
ExpandRows == 2

\* the options are parsed and the table is not read yet
InitExpand ==
  /\ df = <<>>
  /\ threshold_gb = 0
  /\ directories = <<>>
  /\ common_root = <<>>
  /\ nodes = <<>>
  /\ links = <<>>
  /\ label_with_sizes = <<>>
  /\ pc = "read"
  /\ ExpandIdle
  /\ MetaIdle

\* lines 96-117: the threshold option and pd.read_csv
ReadTable ==
  /\ pc = "read"
  /\ df' \in UNION {[1..n -> [abspath : {Str(p) : p \in PathsUpTo(ExpandDepth)},
                              size_GB : {1}]] : n \in 0..ExpandRows}
  /\ threshold_gb' \in {0, 1}
  /\ pc' = "start"
  /\ UNCHANGED <<directories, common_root, nodes, links, label_with_sizes,
                 expandvars, metavars>>

NextExpand ==
  \/ ReadTable
  \/ LoadDirectories
  \/ BeginExpansion
  \/ PermutateStep
  \/ PermutateReturn
  \/ SortNodes
  \/ MakeLinks
  \/ MakeLabels
  \/ MakeRootLinks
  \/ LabelRoot

\* lines 85-93 as steps: generate_node_list is sequential code of one thread
ExpansionStep ==
  \/ BeginExpansion
  \/ PermutateStep
  \/ PermutateReturn
  \/ SortNodes

\* the interpreter takes the next step of generate_node_list whenever it has one
SpecExpand == InitExpand /\ [][NextExpand]_vars /\ WF_vars(ExpansionStep)

(* ------------------------- metadata.py: README ------------------------ *)
Space == <<32>>
Newline == <<10>>
Hash == <<35>>
Colon == <<58>>
LetterX == <<120>>
NameOWNER == <<79, 87, 78, 69, 82>>
NameDATE == <<68, 65, 84, 69>>
NameDESC == <<68, 69, 83, 67>>
NameContent == <<99, 111, 110, 116, 101, 110, 116>>

\* metadata.py line 10
MANDATORY_FIELDS == <<NameOWNER, NameDATE, NameDESC>>

\* metadata.py lines 97 and 104: the width a written line is wrapped at
WrapWidth == 80

IsWhite(c) == <<c>> = Space \/ <<c>> = Newline

\* str.strip(): from the first to the last character that is not whitespace
strip(s) ==
  LET inked == {i \in 1..Len(s) : ~IsWhite(s[i])}
  IN IF inked = {} THEN <<>>
     ELSE SubSeq(s, CHOOSE i \in inked : \A j \in inked : i <= j,
                    CHOOSE i \in inked : \A j \in inked : j <= i)

\* the pieces of s that the positions in cuts separate, in order
Pieces(s, cuts) ==
  LET edge == cuts \cup {0, Len(s) + 1}
      Nth(k) == CHOOSE c \in edge : Cardinality({d \in edge : d < c}) = k
  IN [k \in 1..(Cardinality(edge) - 1) |-> SubSeq(s, Nth(k - 1) + 1, Nth(k) - 1)]

\* str.split(): the runs of characters between whitespace
split(s) ==
  SelectSeq(Pieces(s, {i \in 1..Len(s) : IsWhite(s[i])}), LAMBDA w : w # <<>>)

RECURSIVE JoinBy(_, _)
\* sep.join(strs)
JoinBy(strs, sep) ==
  IF strs = <<>> THEN <<>>
  ELSE IF Len(strs) = 1 THEN strs[1]
  ELSE strs[1] \o sep \o JoinBy(Tail(strs), sep)

\* iteration over an open text file: its lines, the last one with or
\* without a newline at its end
FileLines(text) ==
  LET pieces == Pieces(text, {i \in 1..Len(text) : <<text[i]>> = Newline})
  IN IF pieces[Len(pieces)] = <<>> THEN SubSeq(pieces, 1, Len(pieces) - 1)
     ELSE pieces

\* a dict as the sequence of its items in insertion order: d[k] = v
Put(d, k, v) ==
  IF \E i \in 1..Len(d) : d[i].fld = k
  THEN [i \in 1..Len(d) |-> IF d[i].fld = k THEN [fld |-> k, value |-> v] ELSE d[i]]
  ELSE Append(d, [fld |-> k, value |-> v])

RECURSIVE WrapWords(_, _, _)
\* write_to_file lines 101-110: the loop over the words and what follows it
WrapWords(words, lines, current_line) ==
  IF words = <<>>
  THEN IF current_line # <<>> THEN Append(lines, strip(current_line)) ELSE lines
  ELSE IF Len(current_line) + Len(Head(words)) + 1 <= WrapWidth
       THEN WrapWords(Tail(words), lines, current_line \o Head(words) \o Space)
       ELSE WrapWords(Tail(words), Append(lines, strip(current_line)),
                      Head(words) \o Space)

\* write_to_file lines 96-114: what is written for one field
WrittenField(fld, value) ==
  LET line == Hash \o fld \o Colon \o Space \o value
  IN (IF Len(line) > WrapWidth
      THEN JoinBy(WrapWords(split(line), <<>>, <<>>), Newline)
      ELSE line) \o Newline \o Newline

RECURSIVE FileText(_)
\* write_to_file lines 94-121 for empty content and no logs: the text of
\* the file
FileText(flds) ==
  IF flds = <<>> THEN <<>>
  ELSE WrittenField(flds[1].fld, flds[1].value) \o FileText(Tail(flds))

\* the length of the run of letters A-Z of s from position i
UpperRun(s, i) ==
  LET IsRun(n) == \A j \in i..(i + n - 1) : s[j] \in 65..90
  IN CHOOSE n \in 0..Len(s) :
       /\ i + n - 1 <= Len(s)
       /\ IsRun(n)
       /\ (i + n <= Len(s) => s[i + n] \notin 65..90)

\* lines 135 and 149: pattern.match for ^#([A-Z]+): (.+)$ on a stripped line
Matches(s) ==
  LET n == UpperRun(s, 2)
  IN /\ s # <<>>
     /\ <<s[1]>> = Hash
     /\ n >= 1
     /\ Len(s) >= n + 4
     /\ <<s[n + 2]>> = Colon
     /\ <<s[n + 3]>> = Space

\* lines 154-155: match.groups()
Groups(s) ==
  LET n == UpperRun(s, 2)
  IN <<SubSeq(s, 2, n + 1), SubSeq(s, n + 4, Len(s))>>

RECURSIVE ParseLines(_, _, _, _, _)
\* _parse_readme lines 137-163: the loop over the lines, and what follows
\* it; the empty name stands for current_field = None
ParseLines(lines, current_field, current_value, content_lines, metadata) ==
  LET closed == Put(metadata, current_field, strip(JoinBy(current_value, Space)))
  IN IF lines = <<>>
     THEN [metadata |-> IF current_field # <<>> THEN closed ELSE metadata,
           content_lines |-> content_lines]
     ELSE LET line == strip(Head(lines))
          IN IF line = <<>> /\ current_field # <<>>
             THEN ParseLines(Tail(lines), <<>>, <<>>, content_lines, closed)
             ELSE IF Matches(line)
             THEN ParseLines(Tail(lines), Groups(line)[1], <<Groups(line)[2]>>,
                             content_lines,
                             IF current_field # <<>> THEN closed ELSE metadata)
             ELSE IF current_field # <<>>
             THEN ParseLines(Tail(lines), current_field,
                             Append(current_value, line), content_lines, metadata)
             ELSE ParseLines(Tail(lines), current_field, current_value,
                             Append(content_lines, line), metadata)

\* _parse_readme lines 131-166: the dict it returns, 'content' set last
parse_readme(text) ==
  LET read == ParseLines(FileLines(text), <<>>, <<>>, <<>>, <<>>)
  IN Put(read.metadata, NameContent, strip(JoinBy(read.content_lines, Newline)))

\* from_path lines 69-72: the fields, 'content' popped
ParsedFields(d) == SelectSeq(d, LAMBDA item : item.fld # NameContent)

(* ---------------- write_to_file followed by _parse_readme ------------ *)
\* the lengths of the words of a value, and the most words a value has
ShortWord == 1
MidWord == 30
LongWord == 74
MaxWords == 3

Word(n) == [i \in 1..n |-> LetterX[1]]

Words == {Word(ShortWord), Word(MidWord), Word(LongWord)}

\* non-empty single-spaced text
Values == {JoinBy(ws, Space) : ws \in UNION {[1..n -> Words] : n \in 1..MaxWords}}

\* no plot under way
PlotIdle ==
  /\ df = <<>>
  /\ threshold_gb = 0
  /\ directories = <<>>
  /\ common_root = <<>>
  /\ nodes = <<>>
  /\ links = <<>>
  /\ label_with_sizes = <<>>
  /\ pc = "idle"

\* a DMPMetadata of one or two fields, no content, no logs, its file not written
InitRoundTrip ==
  /\ PlotIdle
  /\ ExpandIdle
  /\ readme = <<>>
  /\ fields \in {<<[fld |-> n, value |-> v]>> : n \in {NameOWNER, NameDESC}, v \in Values}
         \cup {<<[fld |-> NameOWNER, value |-> v], [fld |-> NameDESC, value |-> w]>> :
                 v \in Values, w \in Values}
  /\ parsed = <<>>
  /\ mpc = "write"

\* metadata.py lines 83-121
write_to_file ==
  /\ mpc = "write"
  /\ readme' = <<FileText(fields)>>
  /\ mpc' = "parse"
  /\ UNCHANGED <<fields, parsed, plotvars, expandvars>>

\* metadata.py lines 131-166, on the file written
ParseReadme ==
  /\ mpc = "parse"
  /\ parsed' = parse_readme(readme[1])
  /\ mpc' = "parsed"
  /\ UNCHANGED <<readme, fields, plotvars, expandvars>>

NextRoundTrip ==
  \/ write_to_file
  \/ ParseReadme

SpecRoundTrip == InitRoundTrip /\ [][NextRoundTrip]_vars

(* ------------------------- cli/main.py: init -------------------------- *)
\* what the user may type at a prompt: nothing, or a value of at most two
\* short or middle words
Answers == {<<>>} \cup {v \in Values : Len(v) <= 2 * MidWord + 1}

\* a directory with no README, or with one written earlier
InitInit ==
  /\ PlotIdle
  /\ ExpandIdle
  /\ readme \in {<<>>} \cup
       {<<FileText(<<[fld |-> NameOWNER, value |-> v]>>)>> : v \in {Word(ShortWord), Word(MidWord)}}
  /\ fields = <<>>
  /\ parsed = <<>>
  /\ mpc = "init"

\* cli/main.py lines 257-261: from_path finds a README; init reports and returns
InitReportsExisting ==
  /\ mpc = "init"
  /\ readme # <<>>
  /\ mpc' = "init_error"
  /\ UNCHANGED <<readme, fields, parsed, plotvars, expandvars>>

\* lines 262-271: from_path raises ValueError; every mandatory field starts empty
InitStartsPrompting ==
  /\ mpc = "init"
  /\ readme = <<>>
  /\ fields' = [i \in 1..Len(MANDATORY_FIELDS) |-> [fld |-> MANDATORY_FIELDS[i], value |-> <<>>]]
  /\ mpc' = "prompt"
  /\ UNCHANGED <<readme, parsed, plotvars, expandvars>>

\* lines 273-276: one console.input for the first field still empty
EnterField ==
  /\ mpc = "prompt"
  /\ \E i \in 1..Len(fields) :
       /\ fields[i].value = <<>>
       /\ \A j \in 1..(i - 1) : fields[j].value # <<>>
       /\ \E answer \in Answers :
            fields' = [fields EXCEPT ![i].value = answer]
  /\ UNCHANGED <<readme, parsed, mpc, plotvars, expandvars>>

\* lines 278-293: the DMPMetadata is built, checked and printed
InitPrintsMetadata ==
  /\ mpc = "prompt"
  /\ \A i \in 1..Len(fields) : fields[i].value # <<>>
  /\ mpc' = "init_done"
  /\ UNCHANGED <<readme, fields, parsed, plotvars, expandvars>>

NextInit ==
  \/ InitReportsExisting
  \/ InitStartsPrompting
  \/ EnterField
  \/ InitPrintsMetadata

SpecInit == InitInit /\ [][NextInit]_vars

(* ------------------------------ claims -------------------------------- *)
\* the records the run works on: the rows of the table above the threshold
Records == LET Kept(row) == row.size_GB > threshold_gb IN SelectSeq(df, Kept)

RecordPaths == {PathOf(Records[i].abspath) : i \in 1..Len(Records)}

RecordSizes(p) ==
  {Records[i].size_GB : i \in {j \in 1..Len(Records) : PathOf(Records[j].abspath) = p}}

\* p is q or an ancestor of q, by whole segments
IsAncestorOrEqual(p, q) == Len(p) <= Len(q) /\ SubSeq(q, 1, Len(p)) = p

NodeIndices == 1..Len(nodes)

DisplayedSize(i) == label_with_sizes[i].size

RECURSIVE SumOver(_, _)
SumOver(I, f) ==
  IF I = {} THEN 0
  ELSE LET i == CHOOSE j \in I : TRUE IN f[i] + SumOver(I \ {i}, f)

ChildIndices(i) == {j \in NodeIndices : nodes[j] # nodes[i] /\ parent(nodes[j]) = nodes[i]}

Generated == pc \in {"links", "labels", "rootlinks", "rootlabel", "done"}

DistinctPaths ==
  \A i, j \in 1..Len(Records) :
    PathOf(Records[i].abspath) = PathOf(Records[j].abspath) => i = j

\* a table as the report writer produces it: at least one directory, each
\* once, each of positive size, none the filesystem root
Ordinary ==
  /\ Records # <<>>
  /\ DistinctPaths
  /\ \A i \in 1..Len(Records) : Records[i].size_GB > 0
  /\ <<Slash>> \notin RecordPaths

\* C1: for a non-empty input the common root is an ancestor-or-equal, by whole
\* segments, of every input path, and no deeper path is one.
C1_CommonRootIsDeepestAncestor ==
  (pc # "start" /\ Ordinary) =>
    /\ \A p \in RecordPaths : IsAncestorOrEqual(common_root, p)
    /\ \A q \in AbsPaths :
         (\A p \in RecordPaths : IsAncestorOrEqual(q, p)) => Len(q) <= Len(common_root)

\* C2: at the end of a run every unmeasured node is displayed with the sum of
\* the displayed sizes of the nodes directly under it (stated for the nodes
\* strictly below the common root, whose label line 169 does not replace).
C2_UnmeasuredIsSumOfChildren ==
  (pc = "done" /\ Ordinary) =>
    \A i \in NodeIndices :
      (/\ nodes[i] \notin RecordPaths
       /\ nodes[i] # common_root
       /\ IsAncestorOrEqual(common_root, nodes[i])) =>
        DisplayedSize(i) =
          SumOver(ChildIndices(i), [j \in NodeIndices |-> DisplayedSize(j)])

\* C3: at the end of a run every measured node is displayed with its own
\* input size.
C3_MeasuredKeepsOwnSize ==
  (pc = "done" /\ Ordinary) =>
    \A i \in NodeIndices :
      nodes[i] \in RecordPaths => DisplayedSize(i) \in RecordSizes(nodes[i])

\* C4: the links of a finished run are exactly one per node other than the
\* common root, from the node's parent to the node, valued with the node's
\* displayed size; none targets the common root.
C4_OneEdgePerNonRootNode ==
  (pc = "done" /\ Ordinary) =>
    /\ Len(links) = Len(nodes) - 1
    /\ \A i \in NodeIndices :
         LET E == {k \in 1..Len(links) : links[k].target = i}
         IN IF nodes[i] = common_root THEN E = {}
            ELSE /\ Cardinality(E) = 1
                 /\ \A k \in E : /\ links[k].source = index(nodes, parent(nodes[i]))
                                 /\ links[k].value = DisplayedSize(i)

\* C5: no two links of a finished run have the same source and target.
C5_NoDuplicateEdge ==
  (pc = "done" /\ Ordinary) =>
    \A k, l \in 1..Len(links) :
      (links[k].source = links[l].source /\ links[k].target = links[l].target) => k = l

\* C6: the nodes are exactly the input paths and their ancestors down to and
\* including the common root; nothing above the common root is a node.
C6_NodesAreAncestorsDownToRoot ==
  (Generated /\ Ordinary) =>
    Range(nodes) =
      {q \in AbsPaths : IsAncestorOrEqual(common_root, q)
                         /\ \E p \in RecordPaths : IsAncestorOrEqual(q, p)}

\* C7: the common root is a node, and every other node's parent is a node.
C7_RootAndParentsAreNodes ==
  (Generated /\ Ordinary) =>
    /\ common_root \in Range(nodes)
    /\ \A n \in Range(nodes) : n # common_root => parent(n) \in Range(nodes)

\* C8: the common root is the first element of the node list.
C8_RootIsFirst ==
  (Generated /\ Ordinary) => (nodes # <<>> /\ nodes[1] = common_root)

\* the order of the parts of two paths: at the first segment where they
\* differ, the segment that is the smaller string
RECURSIVE SegmentwiseLess(_, _)
SegmentwiseLess(p, q) ==
  IF q = <<>> THEN FALSE
  ELSE IF p = <<>> THEN TRUE
  ELSE IF Head(p) = Head(q) THEN SegmentwiseLess(Tail(p), Tail(q))
  ELSE StrLess(Head(p), Head(q))

\* C9 as stated: the node list ascends by (number of segments, path string
\* compared character by character).
C9_SortedByDepthThenString ==
  Generated =>
    \A i, j \in NodeIndices :
      i < j => \/ Len(nodes[i]) < Len(nodes[j])
               \/ /\ Len(nodes[i]) = Len(nodes[j])
                  /\ StrLess(Str(nodes[i]), Str(nodes[j]))

\* C9 as amended: the node list ascends by (number of segments, sequence of
\* segments compared segment by segment, each segment as a string).
C9_SortedByDepthThenSegments ==
  Generated =>
    \A i, j \in NodeIndices :
      i < j => \/ Len(nodes[i]) < Len(nodes[j])
               \/ /\ Len(nodes[i]) = Len(nodes[j])
                  /\ SegmentwiseLess(nodes[i], nodes[j])

\* two nodes of one depth that the two orders place differently
C9_Witness ==
  /\ Generated
  /\ \E i, j \in NodeIndices :
       /\ i < j
       /\ Len(nodes[i]) = Len(nodes[j])
       /\ StrLess(Str(nodes[j]), Str(nodes[i]))

\* the tables that are permutations of the table read
PermutedTables ==
  {[i \in 1..Len(df) |-> df[f[i]]] : f \in Permutations(1..Len(df))}

NodesOf(table) ==
  LET dirs == LoadedDirs(table, threshold_gb)
  IN generate_node_list(dirs, get_common_root(dirs))

\* the sizes a whole run on the table displays, node by node
SizesOf(table) ==
  LET dirs == LoadedDirs(table, threshold_gb)
      root == get_common_root(dirs)
      nds == generate_node_list(dirs, root)
      r == LabelLoop(dirs, nds, Len(nds))
      final == RootLabelled(r.labels, r.dirs, nds, root)
  IN [i \in 1..Len(final) |-> final[i].size]

DisplayedSizes == [i \in 1..Len(label_with_sizes) |-> DisplayedSize(i)]

\* C10 as stated: a run on any permutation of the table gives the same node
\* list and the same displayed sizes (the sizes compared for tables of
\* positive sizes).
C10_PermutationSameNodesAndSizes ==
  /\ pc = "links" => \A t \in PermutedTables : NodesOf(t) = nodes
  /\ (pc = "done" /\ \A i \in 1..Len(df) : df[i].size_GB > 0) => \A t \in PermutedTables : SizesOf(t) = DisplayedSizes

\* C10 as amended: the same node list for any permutation, and the same
\* displayed sizes when no path occurs twice in the table.
C10_PermutationSameNodesDistinctSameSizes ==
  /\ pc = "links" => \A t \in PermutedTables : NodesOf(t) = nodes
  /\ (pc = "done" /\ DistinctPaths) =>
       \A t \in PermutedTables : SizesOf(t) = DisplayedSizes

\* a finished run on three different directories, which has five other orders
C10_Witness ==
  /\ pc = "done"
  /\ DistinctPaths
  /\ Len(Records) = 3
  /\ Len(nodes) >= 3

\* the table of the /data scenario
ScenarioTable ==
  <<[abspath |-> Str(ProjADir), size_GB |-> 10],
    [abspath |-> Str(ProjBDir), size_GB |-> 20],
    [abspath |-> Str(OtherDir), size_GB |-> 5]>>

\* the nodes with their displayed sizes, and the links by the paths they join
NodeSizes == {<<nodes[i], DisplayedSize(i)>> : i \in NodeIndices}

EdgeSet ==
  {<<nodes[links[k].source], nodes[links[k].target], links[k].value>> :
     k \in 1..Len(links)}

\* C11: the run on the /data scenario ends with root /data, the five nodes
\* with sizes 35, 30, 10, 20, 5 and exactly the four edges of the scenario.
C11_ScenarioResult ==
  (pc = "done" /\ df = ScenarioTable /\ threshold_gb = 0) =>
    /\ common_root = DataDir
    /\ NodeSizes = {<<DataDir, 35>>, <<ProjDir, 30>>, <<ProjADir, 10>>,
                    <<ProjBDir, 20>>, <<OtherDir, 5>>}
    /\ Len(nodes) = 5
    /\ EdgeSet = {<<DataDir, ProjDir, 30>>, <<DataDir, OtherDir, 5>>,
                  <<ProjDir, ProjADir, 10>>, <<ProjDir, ProjBDir, 20>>}
    /\ Len(links) = 4

RootIndex == index(nodes, common_root)

SumOfRootChildren ==
  SumOver(ChildIndices(RootIndex), [j \in NodeIndices |-> DisplayedSize(j)])

\* C12 as stated: at the end of a run the common root is displayed with the
\* sum of the displayed sizes of the nodes directly under it.
C12_RootIsSumOfChildren ==
  (pc = "done" /\ \A i \in 1..Len(Records) : Records[i].size_GB > 0) =>
    DisplayedSize(RootIndex) = SumOfRootChildren

\* C12 as amended: the same, for the tables in which no path occurs twice.
C12_RootIsSumOfChildrenDistinct ==
  (pc = "done" /\ DistinctPaths) => DisplayedSize(RootIndex) = SumOfRootChildren

\* a finished run whose root has a measured and an unmeasured child
C12_Witness ==
  /\ pc = "done"
  /\ DistinctPaths
  /\ \E i, j \in ChildIndices(RootIndex) :
       /\ nodes[i] \in RecordPaths
       /\ nodes[j] \notin RecordPaths
       /\ DisplayedSize(j) > 0

\* C14: no link and no label of a finished run carries a negative size (a
\* run on a negative input or with a negative sum must abort instead).
C14_NoNegativeValueEmitted ==
  pc = "done" =>
    /\ \A k \in 1..Len(links) : links[k].value >= 0
    /\ \A i \in NodeIndices : DisplayedSize(i) >= 0

\* C16: at the end of a run the records of the DirectoryList are the records
\* it was built with.
C16_InputUnchanged ==
  (pc = "done" /\ Ordinary) => directories = LoadedDirs(df, threshold_gb)

\* C13: a run on zero records fails at once; it neither hangs nor goes on
\* to nodes, links and labels.
C13_EmptyInputStopsWithError ==
  Records = <<>> =>
    pc \notin {"hang", "sort", "links", "labels", "rootlinks", "rootlabel", "done"}

Mapping(d) == {<<d[i].fld, d[i].value>> : i \in 1..Len(d)}

\* C17: init on a directory with no README ends, once OWNER, DATE and DESC
\* are entered, with a README holding those fields; with a README already
\* there it ends in the error and the file is still there.
C17_InitCreatesReadme ==
  /\ mpc = "init_done" =>
       /\ readme # <<>>
       /\ Mapping(ParsedFields(parse_readme(readme[1]))) = Mapping(fields)
  /\ mpc = "init_error" => readme # <<>>

\* C18: parsing the file write_to_file produced gives the field-name to
\* value mapping that was written.
C18_RoundTrip ==
  mpc = "parsed" => Mapping(ParsedFields(parsed)) = Mapping(fields)

====
